---- MODULE Spec2Model ----
(***************************************************************************)
(* Model of MotionExtractor (src/MotionExtractor.cpp): the block-averaging *)
(* downscaler, the two-tier background model with per-pixel stability      *)
(* timers and records, the difference detector, the erosion/dilation       *)
(* filter and the validated parameter store with save/load.                *)
(*                                                                         *)
(* Conventions.                                                            *)
(*  - A pixel is a tuple <<c1, c2, c3>> of bytes (kBytesPerPixel = 3).     *)
(*  - An image (tracked, reference, downscaled) is a function from the     *)
(*    row-major pixel index 0 .. imageArea-1 to a pixel.                   *)
(*  - A source frame is a function from the byte index                     *)
(*    0 .. frameWidth*frameHeight*3 - 1 to a byte, as frame.getPixels().   *)
(*  - A mask is a function from the pixel index to its indicator byte      *)
(*    (channel 0 of motionMask / erodedMask).  Channels 1 and 2 of the     *)
(*    mask buffers are never written by generateMotionMask except by       *)
(*    copying them between the two mask buffers, and are not modelled.     *)
(*  - A double (fps, settle time) is an exact rational <<num, den>> with   *)
(*    den > 0; ceil, *, / and the comparisons are computed exactly.        *)
(***************************************************************************)
EXTENDS Integers, Sequences, FiniteSets, TLC

(***************************************************************************)
(* Bounds of the model.                                                    *)
(***************************************************************************)
\* generateMotionMask is explored while every stability timer is below this
MaxTimer == 4
\* largest mask width / height explored by the filter specification
MaxWidth == 3
MaxHeight == 3

(***************************************************************************)
(* Program constants.                                                      *)
(***************************************************************************)
kDownscaleRatio == 2
kDownscaleSquare == kDownscaleRatio * kDownscaleRatio
kBytesPerPixel == 3
\* constructor defaults
DefaultThreshold == 26
DefaultErosion == 5
\* setter ranges
MinSensitivity == 1
MaxSensitivity == 127
MinSettleTime == 1
MaxSettleTime == 60
MinErosion == 0
MaxErosion == 8

Channels == 1..kBytesPerPixel

VARIABLES
    frameWidth,          \* constructor argument frameWidth
    frameHeight,         \* constructor argument frameHeight
    fps,                 \* videoFPS, a rational <<num, den>>
    motionThreshold,     \* sensitivity
    stableCap,
    erosionLevel,
    currentImage,        \* tracked image
    refImage,            \* reference image
    currentStableTimes,  \* stability timers
    stableRecords,       \* stability records
    firstFrame,
    downscaleBuff,       \* downscaled sample of the last frame
    rawMask,             \* motionMask channel 0 after pass 2 (before the filter)
    erodedMask,          \* channel 0 of the erodedMask buffer
    motionMask,          \* channel 0 of the mask returned by generateMotionMask
    result,              \* what the last operation's caller observed
    lastFrame,           \* history: the frame of the last call, as its block values
    sameCount,           \* history: number of latest consecutive calls fed lastFrame
    pc                   \* position inside generateMotionMask ("idle" between calls)

instVars == <<frameWidth, frameHeight, fps, motionThreshold, stableCap, erosionLevel,
              currentImage, refImage, currentStableTimes, stableRecords, firstFrame,
              downscaleBuff, rawMask, erodedMask, motionMask>>

vars == <<frameWidth, frameHeight, fps, motionThreshold, stableCap, erosionLevel,
          currentImage, refImage, currentStableTimes, stableRecords, firstFrame,
          downscaleBuff, rawMask, erodedMask, motionMask,
          result, lastFrame, sameCount, pc>>

(***************************************************************************)
(* Arithmetic helpers.                                                     *)
(***************************************************************************)
Abs(n) == IF n < 0 THEN -n ELSE n

Min(a, b) == IF a < b THEN a ELSE b

\* Math::sign of MKMath.hpp: -1, 0 or 1
sign(n) == IF n > 0 THEN 1 ELSE IF n < 0 THEN -1 ELSE 0

\* ceil of the rational n/d, d > 0, n >= 0
Ceil(n, d) == (n + d - 1) \div d

\* comparisons of a rational q = <<n, d>> with an integer k
RatLess(q, k) == q[1] < k * q[2]
RatGreater(q, k) == q[1] > k * q[2]
\* equality of two rationals
RatEq(p, q) == p[1] * q[2] = q[1] * p[2]

\* f itself, as an explicit table: evaluates every value of f once
eager(f) == f @@ f

(***************************************************************************)
(* Geometry set up by the constructor.                                     *)
(***************************************************************************)
imageWidth == frameWidth \div kDownscaleRatio
imageHeight == frameHeight \div kDownscaleRatio
srcLineSize == frameWidth * kBytesPerPixel
destLineSize == imageWidth * kBytesPerPixel
imageArea == imageWidth * imageHeight
imageSize == imageArea * kBytesPerPixel
Pixels == 0..(imageArea - 1)

(***************************************************************************)
(* Difference detector.                                                    *)
(***************************************************************************)
\* mutant: a difference equal to the threshold counted as different
pixelIsDifferentAtInclusive(pa, pb, th) == \E b \in Channels : Abs(pa[b] - pb[b]) >= th

\* true iff some channel differs by more than th
pixelIsDifferentAt(pa, pb, th) == \E b \in Channels : Abs(pa[b] - pb[b]) > th

\* MotionExtractor::pixelIsDifferent: reads the member motionThreshold
pixelIsDifferent(pa, pb) == pixelIsDifferentAt(pa, pb, motionThreshold)

(***************************************************************************)
(* Downscaler.  frame is the source byte buffer; the result is the         *)
(* downscaled image.  Each accumulator is an unsigned short.               *)
(***************************************************************************)
\* byte offset of the source sample added to accumulator pixel i, channel c,
\* for source row s and source pixel p of its block
srcOffset(i, c, s, p) ==
    ((i \div imageWidth) * kDownscaleRatio + s) * srcLineSize
        + ((i % imageWidth) * kDownscaleRatio + p) * kBytesPerPixel + (c - 1)

\* the accumulator of pixel i, channel c, after the accumulation loop
downscaleAccumulator(frame, i, c) ==
    ( frame[srcOffset(i, c, 0, 0)] + frame[srcOffset(i, c, 0, 1)]
    + frame[srcOffset(i, c, 1, 0)] + frame[srcOffset(i, c, 1, 1)] ) % 65536

downscale(frame) ==
    eager([i \in Pixels |->
        eager([c \in Channels |->
            (downscaleAccumulator(frame, i, c) \div kDownscaleSquare) % 256])])

(***************************************************************************)
(* Morphological filter.                                                   *)
(***************************************************************************)
\* one pixel's worth of byte offset, and the byte offset of the pixel above
po == kBytesPerPixel
upOne == -(kBytesPerPixel * imageWidth)

\* the neighbour table built by the constructor: PixelOffset(x, y, p), with
\* the byte offset p = up * upOne + right * po kept as the pair of factors
offs == << [x |-> -1, y |->  0, up |-> 0, right |-> -1],
           [x |->  1, y |->  0, up |-> 0, right |->  1],
           [x |-> -1, y |-> -1, up |-> 1, right |-> -1],
           [x |->  0, y |-> -1, up |-> 1, right |->  0],
           [x |->  1, y |-> -1, up |-> 1, right |->  1],
           [x |-> -1, y |->  1, up |-> 1, right |-> -1],
           [x |->  0, y |->  1, up |-> 1, right |->  0],
           [x |->  1, y |->  1, up |-> 1, right |->  1] >>

Offsets == 1..Len(offs)

\* it->p of table entry k
offsetBytes(k) == offs[k].up * upOne + offs[k].right * po

\* the loop counters x, y of the filter passes at pixel i
xOf(i) == i % imageWidth
yOf(i) == i \div imageWidth

\* the low-edge guard of a neighbour read: x + it->x > 0 && y + it->y > 0
edgeGuard(i, k) == xOf(i) + offs[k].x > 0 /\ yOf(i) + offs[k].y > 0

\* byte address, relative to the start of the mask buffer, of (bmp + it->p)[0]
neighbourAddr(i, k) == i * kBytesPerPixel + offsetBytes(k)

InBuffer(addr) == addr >= 0 /\ addr < imageSize

\* addresses outside the mask buffer that a guarded neighbour read can touch
OobAddrs ==
    { neighbourAddr(r[1], r[2]) :
        r \in { q \in Pixels \X Offsets :
                  edgeGuard(q[1], q[2]) /\ ~InBuffer(neighbourAddr(q[1], q[2])) } }

\* contents of the memory around the mask buffer: any byte (zero or not)
OobContents == [OobAddrs -> {0, 255}]

\* the byte read at addr: a mask indicator, or whatever lies outside the buffer
maskRead(mask, addr, oob) ==
    IF InBuffer(addr) THEN mask[addr \div kBytesPerPixel] ELSE oob[addr]

\* the condition of the neighbour loops for table entry k at pixel i
neighbourOn(mask, i, k, oob) ==
    edgeGuard(i, k) /\ maskRead(mask, neighbourAddr(i, k), oob) > 0

adjacents(mask, i, oob) == Cardinality({k \in Offsets : neighbourOn(mask, i, k, oob)})

\* erosion pass: eroded[0] for every pixel
erosionPass(mask, oob) ==
    eager([i \in Pixels |->
        IF mask[i] > 0
        THEN IF adjacents(mask, i, oob) >= erosionLevel THEN mask[i] ELSE 0
        ELSE 0])

\* dilation pass over the eroded mask
dilationPass(mask, oob) ==
    eager([i \in Pixels |->
        IF mask[i] > 0
        THEN mask[i]
        ELSE IF \E k \in Offsets : neighbourOn(mask, i, k, oob) THEN 255 ELSE 0])

\* VideoFrame assignment (*motionMask = *erodedMask): copies the pixels
copyFrame(mask) == mask

(***************************************************************************)
(* Parameter store.  P is the parameter part of an instance:               *)
(*   th, cap, ero : motionThreshold, stableCap, erosionLevel               *)
(*   reset        : whether reset() has been called on it                  *)
(*   err          : the exception that left the operation, or "none"       *)
(* An operation applied to a P whose err is set does nothing: the          *)
(* exception has already left the caller.                                  *)
(***************************************************************************)
\* mutant: the upper bound of the sensitivity excluded
sensitivityOutOfRangeStrict(newSens) ==
    newSens < MinSensitivity \/ newSens >= MaxSensitivity

sensitivityOutOfRange(newSens) == newSens < MinSensitivity \/ newSens > MaxSensitivity

settleTimeOutOfRange(newTime) ==
    RatLess(newTime, MinSettleTime) \/ RatGreater(newTime, MaxSettleTime)

erosionOutOfRange(newErosion) == newErosion < MinErosion \/ newErosion > MaxErosion

\* (unsigned int)ceil(newTime * fps)
settleCap(newTime) == Ceil(newTime[1] * fps[1], newTime[2] * fps[2])

\* the parameters right after construction: stableCap is ceil(videoFPS)
constructed ==
    [th |-> DefaultThreshold, cap |-> settleCap(<<1, 1>>), ero |-> DefaultErosion,
     reset |-> TRUE, err |-> "none"]

\* the parameters of this instance, before an operation
current ==
    [th |-> motionThreshold, cap |-> stableCap, ero |-> erosionLevel,
     reset |-> FALSE, err |-> "none"]

setSensitivity(P, newSens) ==
    IF P.err # "none" THEN P
    ELSE IF sensitivityOutOfRange(newSens) THEN [P EXCEPT !.err = "ArgumentOutOfRange"]
    ELSE [P EXCEPT !.th = newSens, !.reset = TRUE]

setSettleTime(P, newTime) ==
    IF P.err # "none" THEN P
    ELSE IF settleTimeOutOfRange(newTime) THEN [P EXCEPT !.err = "ArgumentOutOfRange"]
    ELSE [P EXCEPT !.cap = settleCap(newTime), !.reset = TRUE]

setErosion(P, newErosion) ==
    IF P.err # "none" THEN P
    ELSE IF erosionOutOfRange(newErosion) THEN [P EXCEPT !.err = "ArgumentOutOfRange"]
    ELSE [P EXCEPT !.ero = newErosion, !.reset = TRUE]

getSensitivity(P) == P.th
\* (double)stableCap / fps
getSettleTime(P) == <<P.cap * fps[2], fps[1]>>
getErosion(P) == P.ero

(***************************************************************************)
(* A Json parameter object is the triple of its members "sensitivity",     *)
(* "settle time" and "erosion level"; a member is <<>> when null/absent,   *)
(* <<n>> when an integer and <<n, d>> when a double.                       *)
(***************************************************************************)
NoArg == << <<>>, <<>>, <<>> >>
isNull(v) == Len(v) = 0
\* asInt of a double truncates toward zero
asInt(v) == IF Len(v) = 1 THEN v[1]
            ELSE IF v[1] >= 0 THEN v[1] \div v[2] ELSE -((-v[1]) \div v[2])
asDouble(v) == IF Len(v) = 1 THEN <<v[1], 1>> ELSE v

save(P) == << <<getSensitivity(P)>>, getSettleTime(P), <<getErosion(P)>> >>

\* the two checks of load that throw FileException
loadMissing(paramsObject) ==
    isNull(paramsObject[1]) \/ isNull(paramsObject[2]) \/ isNull(paramsObject[3])

\* mutant: load without its own range check
loadInvalidNever(paramsObject) == FALSE

loadInvalid(paramsObject) ==
    \/ sensitivityOutOfRange(asInt(paramsObject[1]))
    \/ settleTimeOutOfRange(asDouble(paramsObject[2]))
    \/ erosionOutOfRange(asInt(paramsObject[3]))

load(P, paramsObject) ==
    IF loadMissing(paramsObject) THEN [P EXCEPT !.err = "FileException"]
    ELSE IF loadInvalid(paramsObject) THEN [P EXCEPT !.err = "FileException"]
    ELSE setErosion(setSettleTime(setSensitivity(P, asInt(paramsObject[1])),
                                  asDouble(paramsObject[2])),
                    asInt(paramsObject[3]))

(***************************************************************************)
(* Inputs.                                                                 *)
(***************************************************************************)
\* source pixel values: PixelB is within every sensitivity >= 2 of PixelA,
\* PixelC differs from both by more than 127
PixelA == <<0, 100, 255>>
PixelB == <<2, 100, 255>>
PixelC == <<200, 100, 55>>
Palette == { PixelA, PixelB, PixelC }
\* value of the source pixels of a trailing odd row or column
PixelMargin == <<255, 255, 255>>

\* the source frame whose 2x2 block of downscaled pixel i is filled with
\* blocks[i]; channel 2 gets one more in odd source columns, so that the
\* four samples of a block are not all equal
frameOf(blocks) ==
    eager([a \in 0..(frameWidth * frameHeight * kBytesPerPixel - 1) |->
        LET sx == (a \div kBytesPerPixel) % frameWidth
            sy == (a \div kBytesPerPixel) \div frameWidth
            c  == (a % kBytesPerPixel) + 1
        IN  IF sx \div kDownscaleRatio < imageWidth /\ sy \div kDownscaleRatio < imageHeight
            THEN blocks[(sy \div kDownscaleRatio) * imageWidth + sx \div kDownscaleRatio][c]
                    + (IF c = 2 THEN sx % 2 ELSE 0)
            ELSE PixelMargin[c]])

\* a frame is chosen by the pixel value of each of its blocks
FrameInputs == [Pixels -> Palette]

\* Spec: a one-pixel mask (odd source width), every operation, the
\* boundary values of every setter on both sides
FrameGeometries == { <<3, 2>> }
FpsInputs == { <<1, 1>>, <<2997, 100>> }
SensitivityInputs == { 0, 1, 127, 128 }
SettleTimeInputs == { <<9, 10>>, <<1, 1>>, <<60, 1>>, <<601, 10>> }
ErosionInputs == { -1, 0, 8, 9 }
\* parameter objects handed to load: two valid ones, one with each member
\* missing, one with each member out of range
ConfigInputs ==
    { << <<1>>, <<1, 1>>, <<0>> >>,
      << <<127>>, <<60, 1>>, <<8>> >>,
      << <<>>, <<1, 1>>, <<0>> >>,
      << <<1>>, <<>>, <<0>> >>,
      << <<1>>, <<1, 1>>, <<>> >>,
      << <<128>>, <<1, 1>>, <<0>> >>,
      << <<1>>, <<9, 10>>, <<0>> >>,
      << <<127>>, <<60, 1>>, <<9>> >> }

\* SpecImage: a two-pixel mask (odd source height), the calls that drive the
\* background model under two stable caps, with and without the filter
ImageGeometries == { <<4, 3>> }
ImageFpsInputs == { <<1, 1>> }
ImageSettleTimeInputs == { <<2, 1>> }
ImageErosionInputs == { 0 }

(***************************************************************************)
(* Instance state.                                                         *)
(***************************************************************************)
ZeroImage == [i \in Pixels |-> <<0, 0, 0>>]
ZeroMask == [i \in Pixels |-> 0]
ZeroTimes == [i \in Pixels |-> 0]

\* MotionExtractor::reset
reset ==
    /\ currentStableTimes' = ZeroTimes
    /\ stableRecords' = ZeroTimes
    /\ firstFrame' = TRUE

\* the constructor, for a source geometry and fps taken from the given sets;
\* the buffers it allocates are written before they are read, so their
\* initial content is fixed to zero here
construct(geometries, rates) ==
    /\ \E g \in geometries : frameWidth = g[1] /\ frameHeight = g[2]
    /\ fps \in rates
    /\ motionThreshold = constructed.th
    /\ stableCap = constructed.cap
    /\ erosionLevel = constructed.ero
    /\ currentImage = ZeroImage
    /\ refImage = ZeroImage
    /\ downscaleBuff = ZeroImage
    /\ rawMask = ZeroMask
    /\ erodedMask = ZeroMask
    /\ motionMask = ZeroMask
    /\ currentStableTimes = ZeroTimes
    /\ stableRecords = ZeroTimes
    /\ firstFrame = TRUE
    /\ result = [op |-> "MotionExtractor", err |-> "none", arg |-> NoArg]
    /\ lastFrame = <<>>
    /\ sameCount = 0
    /\ pc = "idle"

Init == construct(FrameGeometries, FpsInputs)

(***************************************************************************)
(* generateMotionMask.                                                     *)
(***************************************************************************)
\* mutant: a change of the pixel that leaves its timer running
pass1TimeKeep(sample, i) ==
    IF pixelIsDifferent(sample[i], currentImage[i])
    THEN currentStableTimes[i]
    ELSE currentStableTimes[i] + 1

\* pass 1: the timer of pixel i
pass1Time(sample, i) ==
    IF pixelIsDifferent(sample[i], currentImage[i]) THEN 0 ELSE currentStableTimes[i] + 1

\* mutant: a nudge of two units
nudgeDouble(cip, tip) == eager([b \in Channels |-> (cip[b] + 2 * sign(tip[b] - cip[b])) % 256])

\* cip[b] += Math::sign(tip[b] - cip[b]) on bytes
nudge(cip, tip) == eager([b \in Channels |-> (cip[b] + sign(tip[b] - cip[b])) % 256])

\* mutant: pass 1 without the hard snap
pass1PixelNoSnap(sample, i) == nudge(currentImage[i], sample[i])

\* pass 1: the tracked pixel i
pass1Pixel(sample, i) ==
    IF pixelIsDifferent(sample[i], currentImage[i])
    THEN sample[i]
    ELSE nudge(currentImage[i], sample[i])

\* mutant: a promotion as soon as the timer equals the record
promotedEager(time, i) == time[i] >= stableRecords[i]

\* pass 2: the promotion test *currentTime > *record
promoted(time, i) == time[i] > stableRecords[i]

\* mutant: a promotion that does not copy the tracked pixel
pass2RefStale(cur, time, i) == refImage[i]

pass2Ref(cur, time, i) == IF promoted(time, i) THEN cur[i] ELSE refImage[i]

\* mutant: a record that is not capped
pass2RecordUncapped(time, i) ==
    IF promoted(time, i) THEN time[i] ELSE stableRecords[i]

pass2Record(time, i) ==
    IF promoted(time, i) THEN Min(time[i], stableCap) ELSE stableRecords[i]

\* mutant: the indicator computed against the reference pixel before promotion
pass2MaskStale(ref, cur, i) == IF pixelIsDifferent(refImage[i], cur[i]) THEN 255 ELSE 0

\* pass 2: bmp[0]
pass2Mask(ref, cur, i) == IF pixelIsDifferent(ref[i], cur[i]) THEN 255 ELSE 0

\* mutant: the first-frame branch returns the mask without wiping it
firstFrameMaskStale == motionMask

\* the first-frame branch wipes channel 0 of the mask
firstFrameMask == [i \in Pixels |-> 0]

\* the masks the erosion pass can leave from raw, and the dilation pass from
\* eroded, over the possible contents of the memory around the buffer
erosionResults(raw) == { erosionPass(raw, oob) : oob \in OobContents }
dilationResults(eroded) == { dilationPass(copyFrame(eroded), oob) : oob \in OobContents }

\* pass 1 and pass 2 on the downscaled frame sample (not the first frame)
updateModel(sample) ==
    \E time \in { eager([i \in Pixels |-> pass1Time(sample, i)]) } :
    \E cur \in { eager([i \in Pixels |-> pass1Pixel(sample, i)]) } :
    \E ref \in { eager([i \in Pixels |-> pass2Ref(cur, time, i)]) } :
        /\ currentStableTimes' = time
        /\ currentImage' = cur
        /\ refImage' = ref
        /\ stableRecords' = [i \in Pixels |-> pass2Record(time, i)]
        /\ rawMask' = [i \in Pixels |-> pass2Mask(ref, cur, i)]

\* mutant: the filter applied whatever the erosion level
filterMaskAlways(raw) ==
    \E eroded \in erosionResults(raw) :
    \E dilated \in dilationResults(eroded) :
        /\ erodedMask' = dilated
        /\ motionMask' = copyFrame(dilated)

\* the erosion and dilation passes on the raw mask; the erodedMask buffer
\* ends holding the dilated mask, which is copied to motionMask
filterMask(raw) ==
    IF erosionLevel > 0
    THEN \E eroded \in erosionResults(raw) :
         \E dilated \in dilationResults(eroded) :
            /\ erodedMask' = dilated
            /\ motionMask' = copyFrame(dilated)
    ELSE /\ motionMask' = raw
         /\ erodedMask' = erodedMask

GenerateMotionMask(blocks) ==
    /\ pc = "idle"
    /\ \A i \in Pixels : currentStableTimes[i] < MaxTimer
    /\ \E sample \in { downscale(frameOf(blocks)) } :
           /\ downscaleBuff' = sample
           /\ IF firstFrame
              THEN /\ currentImage' = sample
                   /\ refImage' = sample
                   /\ firstFrame' = FALSE
                   /\ rawMask' = firstFrameMask
                   /\ motionMask' = firstFrameMask
                   /\ UNCHANGED <<currentStableTimes, stableRecords, erodedMask>>
              ELSE /\ updateModel(sample)
                   /\ filterMask(rawMask')
                   /\ firstFrame' = firstFrame
    /\ result' = [op |-> "generateMotionMask", err |-> "none", arg |-> NoArg]
    /\ lastFrame' = blocks
    /\ sameCount' = IF blocks = lastFrame THEN sameCount + 1 ELSE 1
    /\ UNCHANGED <<frameWidth, frameHeight, fps, motionThreshold, stableCap, erosionLevel, pc>>

(***************************************************************************)
(* reset, the setters, load and the save/load round trip.                  *)
(***************************************************************************)
Reset ==
    /\ pc = "idle"
    /\ reset
    /\ result' = [op |-> "reset", err |-> "none", arg |-> NoArg]
    /\ sameCount' = 0
    /\ UNCHANGED <<frameWidth, frameHeight, fps, motionThreshold, stableCap, erosionLevel,
                   currentImage, refImage, downscaleBuff, rawMask, erodedMask, motionMask,
                   lastFrame, pc>>

\* the instance after an operation of the parameter store left it as P
store(P) ==
    /\ motionThreshold' = P.th
    /\ stableCap' = P.cap
    /\ erosionLevel' = P.ero
    /\ IF P.reset
       THEN reset /\ sameCount' = 0
       ELSE UNCHANGED <<currentStableTimes, stableRecords, firstFrame, sameCount>>
    /\ UNCHANGED <<frameWidth, frameHeight, fps, currentImage, refImage, downscaleBuff,
                   rawMask, erodedMask, motionMask, lastFrame, pc>>

SetSensitivity(newSens) ==
    /\ pc = "idle"
    /\ LET P == setSensitivity(current, newSens)
       IN  /\ store(P)
           /\ result' = [op |-> "setSensitivity", err |-> P.err, arg |-> NoArg]

SetSettleTime(newTime) ==
    /\ pc = "idle"
    /\ LET P == setSettleTime(current, newTime)
       IN  /\ store(P)
           /\ result' = [op |-> "setSettleTime", err |-> P.err, arg |-> NoArg]

SetErosion(newErosion) ==
    /\ pc = "idle"
    /\ LET P == setErosion(current, newErosion)
       IN  /\ store(P)
           /\ result' = [op |-> "setErosion", err |-> P.err, arg |-> NoArg]

Load(paramsObject) ==
    /\ pc = "idle"
    /\ LET P == load(current, paramsObject)
       IN  /\ store(P)
           /\ result' = [op |-> "load", err |-> P.err, arg |-> NoArg]

\* save() of this instance, then load() of the saved object into a fresh
\* instance constructed with the same fps; arg is what save() of the fresh
\* instance then reports (its three getters)
RoundTrip ==
    /\ pc = "idle"
    /\ LET P == load(constructed, save(current))
       IN  result' = [op |-> "save/load", err |-> P.err, arg |-> save(P)]
    /\ UNCHANGED <<instVars, lastFrame, sameCount, pc>>

Next ==
    \/ \E blocks \in FrameInputs : GenerateMotionMask(blocks)
    \/ Reset
    \/ \E newSens \in SensitivityInputs : SetSensitivity(newSens)
    \/ \E newTime \in SettleTimeInputs : SetSettleTime(newTime)
    \/ \E newErosion \in ErosionInputs : SetErosion(newErosion)
    \/ \E paramsObject \in ConfigInputs : Load(paramsObject)
    \/ RoundTrip

Spec == Init /\ [][Next]_vars

(***************************************************************************)
(* SpecImage: the background model on a two-pixel mask.                    *)
(***************************************************************************)
ImageInit == construct(ImageGeometries, ImageFpsInputs)

\* the frames of SpecImage: the slightly different pixel appears in block 0 only
ImageFrameInputs ==
    { blocks \in FrameInputs : \A i \in Pixels : i > 0 => blocks[i] # PixelB }

ImageNext ==
    \/ \E blocks \in ImageFrameInputs : GenerateMotionMask(blocks)
    \/ Reset
    \/ \E newTime \in ImageSettleTimeInputs : SetSettleTime(newTime)
    \/ \E newErosion \in ImageErosionInputs : SetErosion(newErosion)

SpecImage == ImageInit /\ [][ImageNext]_vars

(***************************************************************************)
(* SpecFilter: the filter stage of generateMotionMask, pass by pass, on    *)
(* every raw mask of every geometry up to MaxWidth x MaxHeight.  It starts *)
(* inside the second call after construction, right after pass 2: the      *)
(* first frame was all PixelA, the second has PixelC on the pixels of the  *)
(* raw mask.                                                               *)
(***************************************************************************)
FilterInit ==
    /\ \E w \in 1..MaxWidth, h \in 1..MaxHeight :
          /\ frameWidth = w * kDownscaleRatio
          /\ frameHeight = h * kDownscaleRatio
    /\ fps = <<1, 1>>
    /\ motionThreshold = constructed.th
    /\ stableCap = constructed.cap
    /\ erosionLevel \in (MinErosion + 1)..MaxErosion
    /\ rawMask \in [Pixels -> {0, 255}]
    /\ motionMask = rawMask
    /\ erodedMask = ZeroMask
    /\ currentImage = [i \in Pixels |-> IF rawMask[i] > 0 THEN PixelC ELSE PixelA]
    /\ downscaleBuff = currentImage
    /\ lastFrame = currentImage
    /\ refImage = [i \in Pixels |-> PixelA]
    /\ currentStableTimes = [i \in Pixels |-> IF rawMask[i] > 0 THEN 0 ELSE 1]
    /\ stableRecords = currentStableTimes
    /\ firstFrame = FALSE
    /\ result = [op |-> "generateMotionMask", err |-> "none", arg |-> NoArg]
    /\ sameCount = 1
    /\ pc = "erosion"

\* lines 170-202: the erosion pass, then *motionMask = *erodedMask
ErosionStep ==
    /\ pc = "erosion"
    /\ erosionLevel > 0
    /\ \E eroded \in erosionResults(motionMask) :
          /\ erodedMask' = eroded
          /\ motionMask' = copyFrame(eroded)
    /\ pc' = "dilation"
    /\ UNCHANGED <<frameWidth, frameHeight, fps, motionThreshold, stableCap, erosionLevel,
                   currentImage, refImage, currentStableTimes, stableRecords, firstFrame,
                   downscaleBuff, rawMask, result, lastFrame, sameCount>>

\* lines 204-232: the dilation pass, then *motionMask = *erodedMask
DilationStep ==
    /\ pc = "dilation"
    /\ \E dilated \in dilationResults(motionMask) :
          /\ erodedMask' = dilated
          /\ motionMask' = copyFrame(dilated)
    /\ pc' = "idle"
    /\ UNCHANGED <<frameWidth, frameHeight, fps, motionThreshold, stableCap, erosionLevel,
                   currentImage, refImage, currentStableTimes, stableRecords, firstFrame,
                   downscaleBuff, rawMask, result, lastFrame, sameCount>>

FilterNext ==
    \/ ErosionStep
    \/ DilationStep

SpecFilter == FilterInit /\ [][FilterNext]_vars

(***************************************************************************)
(* Properties.                                                             *)
(***************************************************************************)
\* a step of generateMotionMask; a step of a setter or load that succeeded
IsCall == result'.op = "generateMotionMask"
IsSetterSuccess ==
    /\ result'.op \in {"setSensitivity", "setSettleTime", "setErosion", "load"}
    /\ result'.err = "none"

\* some channel of a and b differs by more than the sensitivity
Differs(a, b) ==
    \/ a[1] - b[1] > motionThreshold \/ b[1] - a[1] > motionThreshold
    \/ a[2] - b[2] > motionThreshold \/ b[2] - a[2] > motionThreshold
    \/ a[3] - b[3] > motionThreshold \/ b[3] - a[3] > motionThreshold

\* C1: the first mask returned after construction, after reset() or after a
\* successful setter has indicator 0 at every pixel: construction, reset and
\* every successful setter arm the first-frame flag, and a call made with
\* the flag armed returns an all-zero indicator channel.
C1_Step ==
    /\ (IsCall /\ firstFrame) => \A i \in Pixels : motionMask'[i] = 0
    /\ (IsSetterSuccess \/ result'.op = "reset") => firstFrame'
C1_FirstMaskZero ==
    /\ [](result.op = "MotionExtractor" => firstFrame)
    /\ [][C1_Step]_vars

\* C1 witness: the first call after a successful setSensitivity, with a non-zero
\* erosion level, on a frame that is not black
C1_Witness ==
    /\ result.op = "generateMotionMask"
    /\ ~firstFrame
    /\ motionThreshold # DefaultThreshold
    /\ erosionLevel > 0
    /\ \A i \in Pixels :
          /\ currentStableTimes[i] = 0 /\ stableRecords[i] = 0
          /\ refImage[i] = currentImage[i] /\ currentImage[i] = PixelC
          /\ motionMask[i] = 0

\* C2 as stated: after stableCap or more consecutive calls with one frame
\* the reference image equals the tracked image and the raw indicator is 0.
C2_ConvergesByStableCap ==
    (result.op = "generateMotionMask" /\ sameCount >= stableCap) =>
        \A i \in Pixels : refImage[i] = currentImage[i] /\ rawMask[i] = 0

\* C2 amended: the same after stableCap + 2 or more consecutive calls.
C2_ConvergesByStableCapPlus2 ==
    (result.op = "generateMotionMask" /\ sameCount >= stableCap + 2) =>
        \A i \in Pixels : refImage[i] = currentImage[i] /\ rawMask[i] = 0

\* C2 witness: stableCap + 2 calls with one frame on a pixel whose record
\* was saturated, under the larger stable cap
C2_Witness ==
    /\ result.op = "generateMotionMask"
    /\ sameCount = stableCap + 2
    /\ stableCap = 2
    /\ currentStableTimes[0] = stableCap + 1
    /\ stableRecords[0] = stableCap
    /\ refImage[0] = PixelC

\* C3: every stability record is at most stableCap, and a step that is not
\* a reset (a call, a failed setter or load, a save) lowers no record.
C3_Step ==
    (IsCall \/ result'.err # "none" \/ result'.op = "save/load") =>
        \A i \in Pixels : stableRecords'[i] >= stableRecords[i]
C3_RecordCapped ==
    /\ [](\A i \in Pixels : stableRecords[i] <= stableCap)
    /\ [][C3_Step]_vars

\* C3 witness: a timer above the cap while the record sits at the cap
C3_Witness ==
    \E i \in Pixels : stableRecords[i] = stableCap /\ currentStableTimes[i] > stableCap

\* C4: a setter given a value outside its range fails with
\* ArgumentOutOfRange and changes nothing of the instance; given a value
\* inside, bounds included, it succeeds and sets its parameter.
C4_Step ==
    /\ \A v \in SensitivityInputs : SetSensitivity(v) =>
          IF v < 1 \/ v > 127
          THEN result'.err = "ArgumentOutOfRange" /\ UNCHANGED instVars
          ELSE result'.err = "none" /\ motionThreshold' = v
    /\ \A t \in SettleTimeInputs : SetSettleTime(t) =>
          IF t[1] < t[2] \/ t[1] > 60 * t[2]
          THEN result'.err = "ArgumentOutOfRange" /\ UNCHANGED instVars
          ELSE result'.err = "none"
    /\ \A l \in ErosionInputs : SetErosion(l) =>
          IF l < 0 \/ l > 8
          THEN result'.err = "ArgumentOutOfRange" /\ UNCHANGED instVars
          ELSE result'.err = "none" /\ erosionLevel' = l
C4_SettersValidate == [][C4_Step]_vars

\* C4 witness: a setter failed on an instance with a frame processed and a
\* record earned, which a reset would have cleared
C4_Witness ==
    /\ result.err = "ArgumentOutOfRange"
    /\ ~firstFrame
    /\ \E i \in Pixels : stableRecords[i] > 0

\* C5: load fails with the format error when a member is missing or out of
\* range and then changes nothing; otherwise it applies the three values
\* and resets the instance.
C5_Bad(cfg) ==
    \/ cfg[1] = <<>> \/ cfg[2] = <<>> \/ cfg[3] = <<>>
    \/ cfg[1][1] < 1 \/ cfg[1][1] > 127
    \/ cfg[2][1] < cfg[2][2] \/ cfg[2][1] > 60 * cfg[2][2]
    \/ cfg[3][1] < 0 \/ cfg[3][1] > 8
C5_Step ==
    \A cfg \in ConfigInputs : Load(cfg) =>
        IF C5_Bad(cfg)
        THEN result'.err = "FileException" /\ UNCHANGED instVars
        ELSE /\ result'.err = "none"
             /\ motionThreshold' = cfg[1][1]
             /\ stableCap' = Ceil(cfg[2][1] * fps[1], cfg[2][2] * fps[2])
             /\ erosionLevel' = cfg[3][1]
             /\ firstFrame'
             /\ \A i \in Pixels : currentStableTimes'[i] = 0 /\ stableRecords'[i] = 0
C5_LoadAllOrNothing == [][C5_Step]_vars

\* C5 witness: a load failed on an instance with a record earned
C5_Witness ==
    /\ result.op = "load"
    /\ result.err = "FileException"
    /\ ~firstFrame
    /\ \E i \in Pixels : stableRecords[i] > 0

\* C6: save() then load() into a fresh instance of the same fps succeeds
\* and the fresh instance reports the three getter values of this one.
C6_RoundTrip ==
    result.op = "save/load" =>
        /\ result.err = "none"
        /\ result.arg[1] = <<motionThreshold>>
        /\ RatEq(result.arg[2], <<stableCap * fps[2], fps[1]>>)
        /\ result.arg[3] = <<erosionLevel>>

\* C7: on a stabilized background, a frame whose sample differs from the
\* tracked pixel by more than the sensitivity exactly on a set B of pixels
\* and equals it elsewhere gives a raw indicator of 255 on B, 0 elsewhere.
C7_Step ==
    ( /\ IsCall
      /\ ~firstFrame
      /\ \A i \in Pixels : refImage[i] = currentImage[i] /\ currentImage[i] = downscaleBuff[i]
      /\ \A i \in Pixels : \/ Differs(downscaleBuff'[i], currentImage[i])
                           \/ downscaleBuff'[i] = currentImage[i] )
    => \A i \in Pixels :
          rawMask'[i] = IF Differs(downscaleBuff'[i], currentImage[i]) THEN 255 ELSE 0
C7_LocalizedChange == [][C7_Step]_vars

\* C7 witness: the second call after a reset changed pixel 0 only
C7_Witness ==
    /\ result.op = "generateMotionMask"
    /\ rawMask[0] = 255 /\ rawMask[1] = 0
    /\ stableRecords[0] = 0 /\ currentStableTimes[0] = 0
    /\ stableRecords[1] = 1 /\ currentStableTimes[1] = 1
    /\ refImage[1] = currentImage[1] /\ currentImage[1] = downscaleBuff[1]
    /\ refImage[0] = PixelA /\ currentImage[0] = PixelC

\* C8: with erosion level 0 the returned indicator channel is the raw
\* difference mask different(reference, tracked), pixel for pixel.
C8_FilterBypass ==
    (result.op = "generateMotionMask" /\ erosionLevel = 0) =>
        \A i \in Pixels :
            motionMask[i] = IF Differs(refImage[i], currentImage[i]) THEN 255 ELSE 0

\* C8 witness: an isolated moving pixel returned as it is
C8_Witness ==
    /\ result.op = "generateMotionMask"
    /\ erosionLevel = 0
    /\ motionMask[0] = 255 /\ motionMask[1] = 0

\* the geometric neighbours of pixel i that have both coordinates > 0
GeoNeighbours(i) ==
    { j \in Pixels :
        /\ j # i
        /\ (j % imageWidth) - (i % imageWidth) \in {-1, 0, 1}
        /\ (j \div imageWidth) - (i \div imageWidth) \in {-1, 0, 1}
        /\ j % imageWidth > 0
        /\ j \div imageWidth > 0 }

\* C9: after the erosion pass a pixel is on iff it is on in the raw mask and
\* at least erosionLevel of its geometric neighbours with both coordinates
\* > 0 are on in the raw mask.
C9_Erosion ==
    pc = "dilation" =>
        \A i \in Pixels :
            (motionMask[i] > 0) <=>
                /\ rawMask[i] > 0
                /\ Cardinality({j \in GeoNeighbours(i) : rawMask[j] > 0}) >= erosionLevel

\* C10: after the dilation pass a pixel is on iff it is on in the eroded
\* mask or one of its geometric neighbours with both coordinates > 0 is.
C10_Step ==
    (pc = "dilation" /\ pc' = "idle") =>
        \A i \in Pixels :
            (motionMask'[i] > 0) <=>
                \/ motionMask[i] > 0
                \/ \E j \in GeoNeighbours(i) : motionMask[j] > 0
C10_Dilation == [][C10_Step]_vars

\* all the geometric neighbours of pixel i inside the mask
AllNeighbours(i) ==
    { j \in Pixels :
        /\ j # i
        /\ (j % imageWidth) - (i % imageWidth) \in {-1, 0, 1}
        /\ (j \div imageWidth) - (i \div imageWidth) \in {-1, 0, 1} }

\* C11: with erosion level >= 1, a pixel that is on in the raw mask while none
\* of its 8 geometric neighbours is on is off in the returned mask.
C11_IsolatedRemoved ==
    pc = "idle" =>
        \A i \in Pixels :
            (rawMask[i] > 0 /\ \A j \in AllNeighbours(i) : rawMask[j] = 0)
                => motionMask[i] = 0

(***************************************************************************)
(* SpecDownscale: the loops of MotionExtractor::downscale, iteration by    *)
(* iteration, on source frames of every geometry up to MaxSrcWidth x       *)
(* MaxSrcHeight.  Here lastFrame holds the bytes of the source frame.      *)
(***************************************************************************)
MaxSrcWidth == 5
MaxSrcHeight == 5

\* srcPixel[c]: a byte of the frame, or of the memory around it
srcByte(frame, a, outside) == IF a \in DOMAIN frame THEN frame[a] ELSE outside

\* mutant: the source pointer set back as if the source rows had no odd column
rowStartPacked(rows) == rows * (imageWidth * kDownscaleRatio * kBytesPerPixel)

\* line 287: offset of the start of source row number rows
rowStart(rows) == rows * srcLineSize

\* lines 249-261: the locals before the while loop, accumulators cleared;
\* reads collects the source offsets read, carry tells whether an unsigned
\* short accumulator wrapped
loopStart ==
    [ accum |-> 0, accumRow |-> 0, accumRowsDone |-> 0, rowPixelsDone |-> 0,
      srcRowsPerAccumRow |-> 0, srcPixel |-> 0,
      acc |-> [a \in 0..(imageSize - 1) |-> 0], reads |-> {}, carry |-> FALSE ]

\* the sum added to accumulator channel c by the inner loops (lines 266-271)
blockSum(frame, outside, st, c) ==
    srcByte(frame, st.srcPixel + c, outside)
        + srcByte(frame, st.srcPixel + kBytesPerPixel + c, outside)

\* lines 264-288: one iteration of the while loop
loopStep(frame, outside, st) ==
    LET acc1 == [a \in 0..(imageSize - 1) |->
                    IF a >= st.accum /\ a < st.accum + kBytesPerPixel
                    THEN (st.acc[a] + blockSum(frame, outside, st, a - st.accum)) % 65536
                    ELSE st.acc[a]]
        over == \E c \in 0..(kBytesPerPixel - 1) :
                    st.acc[st.accum + c] + blockSum(frame, outside, st, c) > 65535
        rd   == { st.srcPixel + b : b \in 0..(kDownscaleRatio * kBytesPerPixel - 1) }
        rowEnd == st.rowPixelsDone + 1 = imageWidth
        rowsEnd == rowEnd /\ st.srcRowsPerAccumRow + 1 = kDownscaleRatio
        done == IF rowsEnd THEN st.accumRowsDone + 1 ELSE st.accumRowsDone
        srcRows == IF rowsEnd THEN 0
                   ELSE IF rowEnd THEN st.srcRowsPerAccumRow + 1
                   ELSE st.srcRowsPerAccumRow
        row == IF rowsEnd THEN done * destLineSize ELSE st.accumRow
    IN  [ accum |-> IF rowEnd THEN row ELSE st.accum + kBytesPerPixel,
          accumRow |-> row,
          accumRowsDone |-> done,
          rowPixelsDone |-> IF rowEnd THEN 0 ELSE st.rowPixelsDone + 1,
          srcRowsPerAccumRow |-> srcRows,
          srcPixel |-> IF rowEnd
                       THEN rowStart(done * kDownscaleRatio + srcRows)
                       ELSE st.srcPixel + kDownscaleRatio * kBytesPerPixel,
          acc |-> eager(acc1),
          reads |-> st.reads \cup rd,
          carry |-> st.carry \/ over ]

\* line 263: while (accum < accumEnd)
RECURSIVE downscaleLoop(_, _, _)
downscaleLoop(frame, outside, st) ==
    IF st.accum < imageSize
    THEN downscaleLoop(frame, outside, loopStep(frame, outside, st))
    ELSE st

\* lines 291-293: *dp = *accum / kDownscaleSquare, on bytes
downscaled(acc) ==
    [i \in Pixels |->
        [c \in Channels |-> (acc[i * kBytesPerPixel + c - 1] \div kDownscaleSquare) % 256]]

\* source frames: byte a holds (a * slope + seed) % 256
SourceSlopes == { 0, 37, 101 }
SourceSeeds == { 0, 255 }
SourceFrames ==
    { [a \in 0..(frameWidth * frameHeight * kBytesPerPixel - 1) |-> (a * k + d) % 256] :
        k \in SourceSlopes, d \in SourceSeeds }

DownscaleInit ==
    /\ frameWidth \in 1..MaxSrcWidth
    /\ frameHeight \in 1..MaxSrcHeight
    /\ fps = <<1, 1>>
    /\ motionThreshold = constructed.th
    /\ stableCap = constructed.cap
    /\ erosionLevel = constructed.ero
    /\ currentImage = ZeroImage
    /\ refImage = ZeroImage
    /\ downscaleBuff = ZeroImage
    /\ rawMask = ZeroMask
    /\ erodedMask = ZeroMask
    /\ motionMask = ZeroMask
    /\ currentStableTimes = ZeroTimes
    /\ stableRecords = ZeroTimes
    /\ firstFrame = TRUE
    /\ result = [op |-> "MotionExtractor", err |-> "none", arg |-> NoArg]
    /\ lastFrame \in SourceFrames
    /\ sameCount = 0
    /\ pc = "downscale"

\* downscale(frame, *downscaleBuff), line 110
Downscale ==
    /\ pc = "downscale"
    /\ \E outside \in {0, 255} :
       \E st \in { downscaleLoop(lastFrame, outside, loopStart) } :
          /\ downscaleBuff' = downscaled(st.acc)
          /\ result' = [op |-> "downscale", err |-> "none", arg |-> <<st.reads, st.carry>>]
    /\ pc' = "idle"
    /\ UNCHANGED <<frameWidth, frameHeight, fps, motionThreshold, stableCap, erosionLevel,
                   currentImage, refImage, currentStableTimes, stableRecords, firstFrame,
                   rawMask, erodedMask, motionMask, lastFrame, sameCount>>

SpecDownscale == DownscaleInit /\ [][Downscale]_vars

\* channel c of the source pixel in row y, column x of the frame
SourcePixel(y, x, c) == lastFrame[(y * frameWidth + x) * 3 + c - 1]

\* C12: the output has floor(W/2) x floor(H/2) pixels, each channel the floor
\* of the mean of its 2x2 source block; a trailing odd source row or column
\* is not read, nothing outside the frame is read, no accumulator wraps.
\* (The closed form downscale(frame) used by the other specifications gives
\* the same image.)
C12_Downscale ==
    result.op = "downscale" =>
        /\ DOMAIN downscaleBuff = 0..((frameWidth \div 2) * (frameHeight \div 2) - 1)
        /\ \A x \in 0..((frameWidth \div 2) - 1), y \in 0..((frameHeight \div 2) - 1) :
           \A c \in 1..3 :
              downscaleBuff[y * (frameWidth \div 2) + x][c] =
                  ( SourcePixel(2 * y, 2 * x, c) + SourcePixel(2 * y, 2 * x + 1, c)
                  + SourcePixel(2 * y + 1, 2 * x, c) + SourcePixel(2 * y + 1, 2 * x + 1, c) ) \div 4
        /\ result.arg[1] =
              { (y * frameWidth + x) * 3 + c - 1 :
                  x \in 0..(2 * (frameWidth \div 2) - 1),
                  y \in 0..(2 * (frameHeight \div 2) - 1),
                  c \in 1..3 }
        /\ result.arg[2] = FALSE
        /\ downscaleBuff = downscale(lastFrame)

\* C12 witness: a 5x5 frame (odd width and height) of 255s downscaled to
\* four pixels; every accumulator reached 1020
C12_Witness ==
    /\ result.op = "downscale"
    /\ frameWidth = 5 /\ frameHeight = 5
    /\ \A a \in DOMAIN lastFrame : lastFrame[a] = 255
    /\ \A i \in 0..3 : downscaleBuff[i] = <<255, 255, 255>>

(***************************************************************************)
(* SpecCompare: pixelIsDifferent on pairs of pixels, held by the one-pixel *)
(* tracked and reference images, under the two extreme sensitivities.      *)
(***************************************************************************)
CompareBytes == { 0, 1, 128, 255 }
CompareSensitivities == { MinSensitivity, MaxSensitivity }
ComparePixels == [Channels -> CompareBytes]

CompareInit ==
    /\ frameWidth = kDownscaleRatio
    /\ frameHeight = kDownscaleRatio
    /\ fps = <<1, 1>>
    /\ motionThreshold \in CompareSensitivities
    /\ stableCap = constructed.cap
    /\ erosionLevel = constructed.ero
    /\ currentImage \in [Pixels -> ComparePixels]
    /\ refImage \in [Pixels -> ComparePixels]
    /\ downscaleBuff = ZeroImage
    /\ rawMask = ZeroMask
    /\ erodedMask = ZeroMask
    /\ motionMask = ZeroMask
    /\ currentStableTimes = ZeroTimes
    /\ stableRecords = ZeroTimes
    /\ firstFrame = FALSE
    /\ result = [op |-> "MotionExtractor", err |-> "none", arg |-> NoArg]
    /\ lastFrame = <<>>
    /\ sameCount = 0
    /\ pc = "compare"

\* pixelIsDifferent(cip, rip) and pixelIsDifferent(rip, cip)
Compare ==
    /\ pc = "compare"
    /\ result' = [op |-> "pixelIsDifferent", err |-> "none",
                  arg |-> << pixelIsDifferent(currentImage[0], refImage[0]),
                             pixelIsDifferent(refImage[0], currentImage[0]) >>]
    /\ pc' = "idle"
    /\ UNCHANGED instVars
    /\ UNCHANGED <<lastFrame, sameCount>>

SpecCompare == CompareInit /\ [][Compare]_vars

\* every channel of a and b differs by exactly the sensitivity
AtThreshold(a, b) ==
    \A c \in 1..3 : a[c] - b[c] = motionThreshold \/ b[c] - a[c] = motionThreshold

\* C13: pixelIsDifferent(a, b) is true iff some channel differs by more than
\* the sensitivity; it is false when every channel differs by exactly the
\* sensitivity; and it is symmetric in a and b.
C13_PixelIsDifferent ==
    result.op = "pixelIsDifferent" =>
        /\ result.arg[1] <=> Differs(currentImage[0], refImage[0])
        /\ AtThreshold(currentImage[0], refImage[0]) => ~result.arg[1]
        /\ result.arg[1] <=> result.arg[2]

\* C13 witness: under sensitivity 127, pixels that differ by exactly 127 in
\* every channel, in both directions, compared as not different
C13_Witness ==
    /\ result.op = "pixelIsDifferent"
    /\ motionThreshold = 127
    /\ currentImage[0] = <<1, 255, 128>>
    /\ refImage[0] = <<128, 128, 1>>
    /\ result.arg = <<FALSE, FALSE>>

\* a step of generateMotionMask that is not the first after a reset
IsLaterCall == result'.op = "generateMotionMask" /\ ~firstFrame

\* C14: on every non-first call, a pixel whose sample differs from its
\* tracked value gets timer 0 and the sample as its tracked value; any other
\* pixel gets its timer increased by 1.  A first call leaves the timers at
\* 0, so a timer counts the latest consecutive non-first calls in which the
\* pixel was not different; in particular it is at least the number of
\* latest calls fed one and the same frame, less one.
C14_Step ==
    /\ IsLaterCall =>
          \A i \in Pixels :
              IF Differs(downscaleBuff'[i], currentImage[i])
              THEN currentStableTimes'[i] = 0 /\ currentImage'[i] = downscaleBuff'[i]
              ELSE currentStableTimes'[i] = currentStableTimes[i] + 1
    /\ (IsCall /\ firstFrame) => \A i \in Pixels : currentStableTimes'[i] = 0
C14_PassOne ==
    /\ [](result.op = "generateMotionMask" =>
             \A i \in Pixels : currentStableTimes[i] >= sameCount - 1)
    /\ [][C14_Step]_vars

\* C14 witness: pixel 0 has just snapped to a different sample while pixel 1
\* has been stable for three calls
C14_Witness ==
    /\ result.op = "generateMotionMask"
    /\ currentStableTimes[0] = 0
    /\ currentImage[0] = PixelC /\ downscaleBuff[0] = PixelC /\ refImage[0] = PixelA
    /\ currentStableTimes[1] = 3

\* C15: on every non-first call, a pixel whose timer after pass 1 is above
\* its record before pass 2 gets the tracked pixel as its reference pixel
\* and min(timer, stableCap) as its record; any other pixel keeps both its
\* reference pixel and its record.
C15_Step ==
    IsLaterCall =>
        \A i \in Pixels :
            IF currentStableTimes'[i] > stableRecords[i]
            THEN /\ refImage'[i] = currentImage'[i]
                 /\ stableRecords'[i] =
                       IF currentStableTimes'[i] < stableCap
                       THEN currentStableTimes'[i] ELSE stableCap
            ELSE /\ refImage'[i] = refImage[i]
                 /\ stableRecords'[i] = stableRecords[i]
NudgeGeometries == { <<2, 2>> }
NudgeFpsInputs == { <<1, 1>> }
NudgePalette == { <<0, 100, 255>>, <<1, 100, 254>>, <<2, 100, 253>> }
NudgeFrameInputs == [Pixels -> NudgePalette]
NudgeSensitivityInputs == { 1, 2 }

NudgeInit == construct(NudgeGeometries, NudgeFpsInputs)

NudgeNext ==
    \/ \E blocks \in NudgeFrameInputs : GenerateMotionMask(blocks)
    \/ \E newSens \in NudgeSensitivityInputs : SetSensitivity(newSens)

SpecNudge == NudgeInit /\ [][NudgeNext]_vars

\* C16: in the not-different branch of pass 1 every tracked channel moves by
\* one unit toward the sample, or stays if equal, and stays a byte; hence
\* once one frame has been fed for as many consecutive calls as the
\* sensitivity, the tracked pixel equals the sample, and it stays equal.
C16_Step ==
    IsLaterCall =>
        \A i \in Pixels :
            ~Differs(downscaleBuff'[i], currentImage[i]) =>
                \A c \in 1..3 :
                    /\ currentImage'[i][c] \in 0..255
                    /\ currentImage'[i][c] =
                          IF downscaleBuff'[i][c] > currentImage[i][c]
                          THEN currentImage[i][c] + 1
                          ELSE IF downscaleBuff'[i][c] < currentImage[i][c]
                               THEN currentImage[i][c] - 1
                               ELSE currentImage[i][c]
C16_Nudge ==
    /\ []((result.op = "generateMotionMask" /\ sameCount >= motionThreshold) =>
             \A i \in Pixels : currentImage[i] = downscaleBuff[i])
    /\ [][C16_Step]_vars

\* C16 witness: under sensitivity 2 the tracked pixel is half way from
\* <<2, 100, 253>> to the sample <<0, 100, 255>>
C16_Witness ==
    /\ result.op = "generateMotionMask"
    /\ motionThreshold = 2
    /\ downscaleBuff[0] = <<0, 100, 255>>
    /\ currentImage[0] = <<1, 100, 254>>
    /\ currentStableTimes[0] > 0
    /\ sameCount = 1

\* the neighbour read of table entry k at pixel i stays inside the mask
\* buffer and addresses a geometric neighbour of i
ReadInPlace(i, k) ==
    /\ neighbourAddr(i, k) >= 0
    /\ neighbourAddr(i, k) < imageWidth * imageHeight * 3
    /\ neighbourAddr(i, k) \div 3 \in AllNeighbours(i)

\* the first table entry that passes the guard at pixel i, if any
FirstGuarded(i) ==
    { k \in Offsets : edgeGuard(i, k) /\ \A j \in Offsets : j < k => ~edgeGuard(i, j) }

\* C17: every neighbour read of the erosion pass (all guarded entries of each
\* pixel that is on) and of the dilation pass (from the first guarded entry
\* of each pixel that is off) addresses a byte inside the mask buffer, and a
\* pixel that is a geometric neighbour.
C17_Step ==
    /\ (pc = "erosion" /\ pc' = "dilation") =>
          \A i \in Pixels : motionMask[i] > 0 =>
              \A k \in Offsets : edgeGuard(i, k) => ReadInPlace(i, k)
    /\ (pc = "dilation" /\ pc' = "idle") =>
          \A i \in Pixels : motionMask[i] = 0 =>
              \A k \in FirstGuarded(i) : ReadInPlace(i, k)
C17_ReadsInBuffer == [][C17_Step]_vars

\* C18: at the (stableCap + 2)-th consecutive call with one frame, and at
\* every later one, the reference pixel equals the tracked pixel, the
\* pre-filter indicator is 0 and the returned indicator is 0 at every pixel.
C18_BoundedResponse ==
    (result.op = "generateMotionMask" /\ sameCount >= stableCap + 2) =>
        \A i \in Pixels :
            /\ refImage[i] = currentImage[i]
            /\ rawMask[i] = 0
            /\ motionMask[i] = 0

\* C19: on the call where the sample of a pixel jumps away from both its
\* tracked and its reference pixel, the timer restarts, the reference pixel
\* is kept and the pre-filter indicator is 255; on each later call with the
\* sample unchanged, the k-th after the jump (k = timer + 1), the reference
\* pixel is kept and the indicator is 255 while k <= record, and the
\* reference pixel becomes the tracked pixel, with indicator 0, when
\* k = record + 1: after stableCap + 1 calls for a saturated record.  A
\* pixel is never left unabsorbed with its timer above its record.
C19_Step ==
    IsLaterCall =>
        \A i \in Pixels :
            /\ (Differs(downscaleBuff'[i], currentImage[i]) /\ Differs(downscaleBuff'[i], refImage[i])) =>
                  /\ currentStableTimes'[i] = 0
                  /\ refImage'[i] = refImage[i]
                  /\ rawMask'[i] = 255
            /\ (downscaleBuff'[i] = currentImage[i] /\ Differs(refImage[i], currentImage[i])) =>
                  /\ currentStableTimes'[i] = currentStableTimes[i] + 1
                  /\ IF currentStableTimes[i] + 1 <= stableRecords[i]
                     THEN refImage'[i] = refImage[i] /\ rawMask'[i] = 255
                     ELSE refImage'[i] = downscaleBuff'[i] /\ rawMask'[i] = 0
C19_AbsorptionDelay ==
    /\ [](result.op = "generateMotionMask" =>
             \A i \in Pixels :
                 Differs(refImage[i], currentImage[i]) =>
                     currentStableTimes[i] <= stableRecords[i])
    /\ [][C19_Step]_vars

\* C19 witness: under stable cap 2, pixel 0 with a saturated record on the
\* second call after its jump from PixelA to PixelC: still not absorbed
C19_Witness ==
    /\ result.op = "generateMotionMask"
    /\ stableCap = 2
    /\ stableRecords[0] = 2 /\ currentStableTimes[0] = 2
    /\ refImage[0] = PixelA /\ currentImage[0] = PixelC
    /\ rawMask[0] = 255

\* C20: reset() changes none of the three parameters, and the masks returned
\* after it are those of a freshly constructed instance fed the same frames:
\* the first call after a reset leaves the state a fresh instance would
\* have after that frame (tracked = reference = sample, timers and records
\* 0, indicator 0), and the mask returned by any call is determined by the
\* instance and the frame, whatever lies in memory around the mask buffer.
C20_Step ==
    /\ result'.op = "reset" =>
          /\ UNCHANGED <<frameWidth, frameHeight, fps, motionThreshold, stableCap, erosionLevel>>
          /\ firstFrame'
          /\ \A i \in Pixels : currentStableTimes'[i] = 0 /\ stableRecords'[i] = 0
    /\ (IsCall /\ firstFrame) =>
          /\ ~firstFrame'
          /\ \A i \in Pixels :
                /\ currentImage'[i] = downscaleBuff'[i]
                /\ refImage'[i] = downscaleBuff'[i]
                /\ currentStableTimes'[i] = 0 /\ stableRecords'[i] = 0
                /\ motionMask'[i] = 0
    /\ (IsLaterCall /\ erosionLevel > 0) =>
          \A o1 \in OobContents, o2 \in OobContents :
              motionMask' = dilationPass(erosionPass(rawMask', o1), o2)
C20_ResetEquivalence == [][C20_Step]_vars

====
